---- MODULE Spec2Model ----
(***************************************************************************)
(* Model of utility-emissions-channel/chaincode/node/lib/                  *)
(* emissionscontract.js: the EmissionsRecordContract engine (division      *)
(* resolution, CO2 calculation, record store writes) and the               *)
(* EmissionsContractInvoke client (connect, submit/evaluate, disconnect,   *)
(* reshaping and the recency filter).                                      *)
(*                                                                         *)
(* JavaScript strings are sequences of one-character strings, so that      *)
(* concatenation, slice, split, toLowerCase and parseInt are computed and  *)
(* not assumed.  JavaScript numbers are exact rationals n/d together with  *)
(* NaN, +Infinity and -Infinity; rounding of IEEE doubles is not modelled  *)
(* (the specification states its numeric properties "within               *)
(* floating-point tolerance"), and neither is the sign of zero.            *)
(***************************************************************************)
EXTENDS Integers, Sequences, FiniteSets, TLC

VARIABLES utilityLookupList, utilityEmissionsFactorList, emissionsList,
          gateway, call, ret

vars == <<utilityLookupList, utilityEmissionsFactorList, emissionsList,
          gateway, call, ret>>

stores == <<utilityLookupList, utilityEmissionsFactorList, emissionsList>>

(***************************************************************************)
(* JavaScript values                                                       *)
(***************************************************************************)
JsVal(t, s, k, n, d) == [t |-> t, s |-> s, k |-> k, n |-> n, d |-> d]

Undefined == JsVal("undefined", <<>>, "fin", 0, 1)

Null == JsVal("null", <<>>, "fin", 0, 1)

JsStr(s) == JsVal("string", s, "fin", 0, 1)

Abs(x) == IF x < 0 THEN -x ELSE x

RECURSIVE Gcd(_, _)
Gcd(a, b) == IF b = 0 THEN a ELSE Gcd(b, a % b)

\* the rational n/d (d # 0) in lowest terms with a positive denominator
JsRat(n, d) ==
  LET g == Gcd(Abs(n), Abs(d))
      sg == IF d < 0 THEN -1 ELSE 1
  IN JsVal("number", <<>>, "fin", sg * (n \div g), Abs(d) \div g)

JsNum(n) == JsRat(n, 1)

NaN == JsVal("number", <<>>, "nan", 0, 1)

PosInf == JsVal("number", <<>>, "pinf", 0, 1)

NegInf == JsVal("number", <<>>, "ninf", 0, 1)

IsFinite(v) == v.t = "number" /\ v.k = "fin"

\* -1, 0, 1 for a number that is not NaN
Sign(v) == IF v.k = "pinf" THEN 1
           ELSE IF v.k = "ninf" THEN -1
           ELSE IF v.n > 0 THEN 1 ELSE IF v.n < 0 THEN -1 ELSE 0

SignedInf(sg) == IF sg > 0 THEN PosInf ELSE NegInf

JsMul(a, b) ==
  IF a.k = "nan" \/ b.k = "nan" THEN NaN
  ELSE IF a.k = "fin" /\ b.k = "fin" THEN JsRat(a.n * b.n, a.d * b.d)
  ELSE IF Sign(a) * Sign(b) = 0 THEN NaN
  ELSE SignedInf(Sign(a) * Sign(b))

JsDiv(a, b) ==
  IF a.k = "nan" \/ b.k = "nan" THEN NaN
  ELSE IF a.k = "fin" /\ b.k = "fin"
       THEN IF b.n = 0
            THEN IF a.n = 0 THEN NaN ELSE SignedInf(Sign(a))
            ELSE JsRat(a.n * b.d, a.d * b.n)
  ELSE IF a.k # "fin" /\ b.k # "fin" THEN NaN
  ELSE IF a.k = "fin" THEN JsNum(0)
  ELSE SignedInf(Sign(a) * (IF Sign(b) < 0 THEN -1 ELSE 1))

JsAdd(a, b) ==
  IF a.k = "nan" \/ b.k = "nan" THEN NaN
  ELSE IF a.k = "fin" /\ b.k = "fin"
       THEN JsRat(a.n * b.d + b.n * a.d, a.d * b.d)
  ELSE IF a.k # "fin" /\ b.k # "fin"
       THEN IF a.k = b.k THEN a ELSE NaN
  ELSE IF a.k = "fin" THEN b ELSE a

JsNeg(a) ==
  IF a.k = "nan" THEN NaN
  ELSE IF a.k = "pinf" THEN NegInf
  ELSE IF a.k = "ninf" THEN PosInf
  ELSE JsRat(-a.n, a.d)

JsSub(a, b) == JsAdd(a, JsNeg(b))

\* a < b on numbers; every comparison with NaN is false
JsLess(a, b) ==
  IF a.k = "nan" \/ b.k = "nan" THEN FALSE
  ELSE IF a.k = "fin" /\ b.k = "fin" THEN a.n * b.d < b.n * a.d
  ELSE IF a.k = b.k THEN FALSE
  ELSE a.k = "ninf" \/ b.k = "pinf"

(***************************************************************************)
(* Strings                                                                 *)
(***************************************************************************)
Digits == <<"0", "1", "2", "3", "4", "5", "6", "7", "8", "9">>

IsDigit(c) == \E i \in 1..10 : Digits[i] = c

DigitVal(c) == (CHOOSE i \in 1..10 : Digits[i] = c) - 1

UpperCase == <<"A", "B", "C", "D", "E", "F", "G", "H", "I", "J", "K", "L", "M",
               "N", "O", "P", "Q", "R", "S", "T", "U", "V", "W", "X", "Y", "Z">>

LowerCase == <<"a", "b", "c", "d", "e", "f", "g", "h", "i", "j", "k", "l", "m",
               "n", "o", "p", "q", "r", "s", "t", "u", "v", "w", "x", "y", "z">>

LowerChar(c) ==
  IF \E i \in 1..26 : UpperCase[i] = c
  THEN LowerCase[CHOOSE i \in 1..26 : UpperCase[i] = c]
  ELSE c

\* String.prototype.toLowerCase
toLowerCase(s) == [i \in 1..Len(s) |-> LowerChar(s[i])]

\* String.prototype.slice(from, to) for 0 <= from <= to
slice(s, from, to) ==
  SubSeq(s, from + 1, IF to < Len(s) THEN to ELSE Len(s))

\* length of the longest prefix of s made of decimal digits
RECURSIVE DigitPrefixLen(_)
DigitPrefixLen(s) ==
  IF s = <<>> \/ ~IsDigit(Head(s)) THEN 0 ELSE 1 + DigitPrefixLen(Tail(s))

RECURSIVE DigitsValue(_)
DigitsValue(s) ==
  IF s = <<>> THEN 0
  ELSE 10 * DigitsValue(SubSeq(s, 1, Len(s) - 1)) + DigitVal(s[Len(s)])

\* parseInt(s): the leading decimal digits, NaN when there are none
\* (the strings of this model carry no sign, blank or radix prefix)
parseInt(s) ==
  LET p == DigitPrefixLen(s)
  IN IF p = 0 THEN NaN ELSE JsNum(DigitsValue(SubSeq(s, 1, p)))

\* digits of a natural number
RECURSIVE NatToStr(_)
NatToStr(n) ==
  IF n < 10 THEN <<Digits[n + 1]>>
  ELSE NatToStr(n \div 10) \o <<Digits[(n % 10) + 1]>>

\* ToString, as applied by  value + ""
ToStr(v) ==
  IF v.t = "string" THEN v.s
  ELSE IF v.t = "undefined" THEN <<"u", "n", "d", "e", "f", "i", "n", "e", "d">>
  ELSE IF v.t = "null" THEN <<"n", "u", "l", "l">>
  ELSE IF v.k = "nan" THEN <<"N", "a", "N">>
  ELSE IF v.k = "pinf" THEN <<"I", "n", "f", "i", "n", "i", "t", "y">>
  ELSE IF v.k = "ninf" THEN <<"-", "I", "n", "f", "i", "n", "i", "t", "y">>
  ELSE IF v.d = 1 /\ v.n >= 0 THEN NatToStr(v.n)
  ELSE IF v.d = 1 THEN <<"-">> \o NatToStr(-v.n)
  ELSE NatToStr(Abs(v.n)) \o <<"/">> \o NatToStr(v.d)

\* parseFloat(v) on a number or on a string without sign, point or exponent
parseFloat(v) == IF v.t = "number" THEN v ELSE parseInt(ToStr(v))

\* ToNumber, as applied by Number(v), parseFloat of a digit string, and the
\* operands of * and /
ToNumber(v) ==
  IF v.t = "number" THEN v
  ELSE IF v.t = "undefined" THEN NaN
  ELSE IF v.t = "null" THEN JsNum(0)
  ELSE IF v.s = <<>> THEN JsNum(0)
  ELSE IF DigitPrefixLen(v.s) = Len(v.s) THEN JsNum(DigitsValue(v.s))
  ELSE NaN

\* ToBoolean, as applied by  if (v)  and  !v
Truthy(v) ==
  IF v.t = "string" THEN Len(v.s) > 0
  ELSE IF v.t = "number" THEN v.k # "nan" /\ ~(v.k = "fin" /\ v.n = 0)
  ELSE FALSE

(***************************************************************************)
(* String literals of the source and of the data                           *)
(***************************************************************************)
S_nerc_region == <<"n", "e", "r", "c", "_", "r", "e", "g", "i", "o", "n">>

S_NERC_REGION == <<"N", "E", "R", "C", "_", "R", "E", "G", "I", "O", "N">>

S_country == <<"c", "o", "u", "n", "t", "r", "y">>

S_Country == <<"C", "o", "u", "n", "t", "r", "y">>

S_COUNTRY == <<"C", "O", "U", "N", "T", "R", "Y">>

S_STATE == <<"S", "T", "A", "T", "E">>

S_usa == <<"u", "s", "a">>

S_USA == <<"U", "S", "A">>

S_CAN == <<"C", "A", "N">>

S_CA == <<"C", "A">>

S_WECC == <<"W", "E", "C", "C">>

(***************************************************************************)
(* Division resolution: getEmissionsFactor, lines 164-193                  *)
(*                                                                         *)
(* A utility lookup item is [state_province, divisions], divisions being   *)
(* the parsed pair [division_type, division_id]; a field the JSON lacks is *)
(* Undefined.                                                              *)
(***************************************************************************)
LookupItem(sp, dt, di) ==
  [state_province |-> sp, divisions |-> [division_type |-> dt, division_id |-> di]]

Division(id, type) == [division_id |-> id, division_type |-> type]

Resolved(div) == [status |-> "ok", division |-> div]

\* a throw, with the division built before it (none: both fields Undefined)
ResolveThrows(err, div) == [status |-> err, division |-> div]

\* line 167: ((JSON.parse(utilityLookup).state_province) + "").length > 0
hasStateData(item) == Len(ToStr(item.state_province)) > 0

\* lines 180-188: the if / else-if chain that builds newDivision
newDivision(item) ==
  LET fetchedDivisions == item.divisions
      fetchedDivisionType == fetchedDivisions.division_type
      fetchedDivisionId == fetchedDivisions.division_id
      isNercRegion == toLowerCase(fetchedDivisionType.s) = S_nerc_region
      isNonUSCountry == /\ toLowerCase(fetchedDivisionType.s) = S_country
                        /\ toLowerCase(fetchedDivisionId.s) # S_usa
  IN IF hasStateData(item) THEN Division(item.state_province, JsStr(S_STATE))
     ELSE IF isNercRegion THEN fetchedDivisions
     ELSE IF isNonUSCountry THEN Division(fetchedDivisionId, JsStr(S_Country))
     ELSE Division(JsStr(S_USA), JsStr(S_COUNTRY))

\* lines 190-193: line 192 calls reject, which no scope defines: a
\* ReferenceError
checkDivisionId(newDiv) ==
  IF ~Truthy(newDiv.division_id) THEN ResolveThrows("ReferenceError", newDiv)
  ELSE Resolved(newDiv)

\* lines 172-193.  Lines 176-178 call toLowerCase before the chain is entered:
\* on a value that is not a string the call throws a TypeError.
ResolveDivision(item) ==
  LET fetchedDivisionType == item.divisions.division_type
      fetchedDivisionId == item.divisions.division_id
  IN IF fetchedDivisionType.t # "string"
     THEN ResolveThrows("TypeError", Division(Undefined, Undefined))
     ELSE IF /\ toLowerCase(fetchedDivisionType.s) = S_country
             /\ fetchedDivisionId.t # "string"
          THEN ResolveThrows("TypeError", Division(Undefined, Undefined))
     ELSE checkDivisionId(newDivision(item))

(***************************************************************************)
(* Unit conversion table (EmissionsCalc.get_uom_factor, emissions-calc.js) *)
(***************************************************************************)
S_g == <<"g">>

S_kg == <<"k", "g">>

S_tons == <<"t", "o", "n", "s">>

S_kWh == <<"k", "W", "h">>

S_MWh == <<"M", "W", "h">>

S_kg_per_MWh == <<"k", "g", "/", "M", "W", "h">>

S_g_per_kWh == <<"g", "/", "k", "W", "h">>

\* the unit symbols the table holds, each with its multiplier against the
\* base unit of its kind (g, kWh)
UomTable ==
  {<<S_g, 1>>, <<S_kg, 1000>>, <<S_tons, 1000000>>, <<S_kWh, 1>>, <<S_MWh, 1000>>}

UomKnown(u) == u.t = "string" /\ \E e \in UomTable : e[1] = u.s

\* get_uom_factor(u) for a unit the table holds; a unit it does not hold
\* has no multiplier and the lookup fails
get_uom_factor(u) == JsNum((CHOOSE e \in UomTable : e[1] = u.s)[2])

\* String.prototype.split on a one-character separator
RECURSIVE split(_, _)
split(s, sep) ==
  IF \A i \in 1..Len(s) : s[i] # sep THEN <<s>>
  ELSE LET i == CHOOSE j \in 1..Len(s) :
                  s[j] = sep /\ \A k \in 1..(j - 1) : s[k] # sep
       IN <<SubSeq(s, 1, i - 1)>> \o split(SubSeq(s, i + 1, Len(s)), sep)

\* element i (from 0) of an array of strings; undefined past its end
At(arr, i) == IF i < Len(arr) THEN JsStr(arr[i + 1]) ELSE Undefined

(***************************************************************************)
(* Emissions calculation: getCo2Emissions, lines 235-294                   *)
(*                                                                         *)
(* A factor record carries the fields the calculation reads; a field the   *)
(* stored JSON lacks is Undefined.                                         *)
(***************************************************************************)
Co2Result(value, uom, f, ren, nonren) ==
  [status |-> "ok",
   emissions |-> [value |-> value, uom |-> uom],
   division_type |-> f.division_type,
   division_id |-> f.division_id,
   renewable_energy_use_amount |-> ren,
   nonrenewable_energy_use_amount |-> nonren,
   year |-> f.year]

Co2Throws(err) ==
  [status |-> err,
   emissions |-> [value |-> Undefined, uom |-> Undefined],
   division_type |-> Undefined,
   division_id |-> Undefined,
   renewable_energy_use_amount |-> Undefined,
   nonrenewable_energy_use_amount |-> Undefined,
   year |-> Undefined]

\* line 239: if (utilityFactor.percent_of_renewables)
usesPercentOfRenewables(utilityFactor) == Truthy(utilityFactor.percent_of_renewables)

\* lines 252-260, on the two units of co2_equivalent_emissions_uom and on
\* percent_of_renewables / 100
BranchAWith(utilityFactor, usage, u0, u1, percent_of_renewables) ==
  IF ~UomKnown(u0) \/ ~UomKnown(u1) THEN Co2Throws("UnknownUom")
  ELSE Co2Result(
         JsMul(JsMul(ToNumber(utilityFactor.co2_equivalent_emissions), usage),
               JsDiv(get_uom_factor(u0), get_uom_factor(u1))),
         JsStr(S_g), utilityFactor,
         JsMul(usage, percent_of_renewables),
         JsMul(usage, JsSub(JsNum(1), percent_of_renewables)))

\* lines 241-260
BranchA(utilityFactor, usage) ==
  BranchAWith(utilityFactor, ToNumber(usage),
              At(split(ToStr(utilityFactor.co2_equivalent_emissions_uom), "/"), 0),
              At(split(ToStr(utilityFactor.co2_equivalent_emissions_uom), "/"), 1),
              JsDiv(ToNumber(utilityFactor.percent_of_renewables), JsNum(100)))

\* lines 266-281, on total_generation
BranchBWith(utilityFactor, usage, usage_uom, emissions_uom, total_generation) ==
  IF \/ ~UomKnown(usage_uom) \/ ~UomKnown(utilityFactor.net_generation_uom)
     \/ ~UomKnown(utilityFactor.co2_equivalent_emissions_uom)
  THEN Co2Throws("UnknownUom")
  ELSE Co2Result(
         JsMul(JsMul(JsMul(JsDiv(ToNumber(utilityFactor.co2_equivalent_emissions),
                                 ToNumber(utilityFactor.net_generation)),
                           usage),
                     JsDiv(get_uom_factor(usage_uom),
                           get_uom_factor(utilityFactor.net_generation_uom))),
               JsDiv(get_uom_factor(utilityFactor.co2_equivalent_emissions_uom),
                     get_uom_factor(emissions_uom))),
         emissions_uom, utilityFactor,
         JsMul(usage, JsDiv(ToNumber(utilityFactor.renewables), total_generation)),
         JsMul(usage, JsDiv(ToNumber(utilityFactor.non_renewables), total_generation)))

\* lines 264-281
BranchB(utilityFactor, usage, usage_uom) ==
  BranchBWith(utilityFactor, ToNumber(usage), usage_uom, JsStr(S_tons),
              JsAdd(ToNumber(utilityFactor.non_renewables),
                    ToNumber(utilityFactor.renewables)))

\* lines 235-294: the calculation on the factor record the query returned
Calculate(utilityFactor, usage, usage_uom) ==
  IF usesPercentOfRenewables(utilityFactor)
  THEN BranchA(utilityFactor, usage)
  ELSE BranchB(utilityFactor, usage, usage_uom)

(***************************************************************************)
(* Record store adapter (emissionslist.js, egrid-data.js): each list is a  *)
(* function from the keys written so far to the entity last written there. *)
(***************************************************************************)
\* put(entity, key): create or overwrite
Put(list, key, entity) ==
  [k \in (DOMAIN list) \cup {key} |-> IF k = key THEN entity ELSE list[k]]

\* byte order of the characters that occur in keys
CharOrder == <<"#", "-", "/">> \o Digits \o UpperCase \o <<"_">> \o LowerCase

CharCode(c) == CHOOSE i \in 1..Len(CharOrder) : CharOrder[i] = c

RECURSIVE KeyLess(_, _)
KeyLess(a, b) ==
  IF b = <<>> THEN FALSE
  ELSE IF a = <<>> THEN TRUE
  ELSE IF Head(a) = Head(b) THEN KeyLess(Tail(a), Tail(b))
  ELSE CharCode(Head(a)) < CharCode(Head(b))

\* the keys of a set in ascending byte order
RECURSIVE KeysInOrder(_)
KeysInOrder(keys) ==
  IF keys = {} THEN <<>>
  ELSE LET m == CHOOSE k \in keys : \A o \in keys \ {k} : KeyLess(k, o)
       IN <<m>> \o KeysInOrder(keys \ {m})

\* queryByPartialKey: the entities under the matching keys, in key order
QueryList(list, matching) ==
  LET ks == KeysInOrder(matching)
  IN [i \in 1..Len(ks) |-> list[ks[i]]]

\* EmissionsCalc.get_full_year_from_date: the calendar year of an ISO date,
\* NaN (no year filter, line 205) for anything else
get_full_year_from_date(date) ==
  IF date.t = "string" /\ DigitPrefixLen(date.s) = 4 THEN parseInt(slice(date.s, 0, 4))
  ELSE NaN

\* getUtilityEmissionsFactorsByDivision(queryParams), lines 196-215
getUtilityEmissionsFactorsByDivision(division, year) ==
  LET match(f) == /\ f.division_type = division.division_type
                  /\ f.division_id = division.division_id
                  /\ (Truthy(year) => ToNumber(f.year) = year)
  IN QueryList(utilityEmissionsFactorList,
               {k \in DOMAIN utilityEmissionsFactorList : match(utilityEmissionsFactorList[k])})

\* getAllEmissionRecords(queryData), lines 130-134: a trailing field left out
\* widens the scan
getAllEmissionRecords(utilityId, partyId) ==
  LET match(r) == /\ r.utilityId = utilityId
                  /\ (partyId.t # "undefined" => r.partyId = partyId)
  IN QueryList(emissionsList, {k \in DOMAIN emissionsList : match(emissionsList[k])})

(***************************************************************************)
(* Engine: EmissionsRecordContract                                         *)
(***************************************************************************)
\* the hashing collaborator, taken to be collision-free: the digest stands
\* for the string it was computed from
MD5(str) == <<"#">> \o str

\* line 45: MD5(utilityId + partyId + fromDate + thruDate).toString(); the
\* engine receives these four arguments as strings, so each + concatenates
Fingerprint(utilityId, partyId, fromDate, thruDate) ==
  MD5(ToStr(utilityId) \o ToStr(partyId) \o ToStr(fromDate) \o ToStr(thruDate))

\* lines 195-220: the factor query for the resolved division, or the error
\* the resolution threw
queryFactors(resolved, year) ==
  IF resolved.status # "ok" THEN [status |-> resolved.status, utilityFactors |-> <<>>]
  ELSE [status |-> "ok",
        utilityFactors |-> getUtilityEmissionsFactorsByDivision(resolved.division, year)]

\* getEmissionsFactor(uuid, thruDate), lines 161-221: the factors of the
\* division the utility resolves to, or the error thrown on the way
getEmissionsFactor(uuid, thruDate) ==
  IF ToStr(uuid) \notin DOMAIN utilityLookupList
  THEN [status |-> "NotFound", utilityFactors |-> <<>>]
  ELSE queryFactors(ResolveDivision(utilityLookupList[ToStr(uuid)]),
                    get_full_year_from_date(thruDate))

\* lines 227-294: the first factor of the query result, calculated on
calculateOnFirst(utilityFactorCall, usage, usage_uom) ==
  IF utilityFactorCall.status # "ok" THEN Co2Throws(utilityFactorCall.status)
  ELSE IF utilityFactorCall.utilityFactors = <<>> THEN Co2Throws("NoFactorFound")
  ELSE Calculate(utilityFactorCall.utilityFactors[1], usage, usage_uom)

\* getCo2Emissions(uuid, thruDate, usage, usage_uom), lines 224-295
getCo2Emissions(uuid, thruDate, usage, usage_uom) ==
  calculateOnFirst(getEmissionsFactor(uuid, thruDate), usage, usage_uom)

S_eGrid == <<"e", "G", "r", "i", "d">>

\* line 42
FactorSource(co2Emissions) ==
  S_eGrid \o <<" ">> \o ToStr(co2Emissions.year) \o <<" ">>
          \o ToStr(co2Emissions.division_type) \o <<" ">>
          \o ToStr(co2Emissions.division_id)

\* EmissionsRecord.createInstance
EmissionsRecord(uuid, utilityId, partyId, fromDate, thruDate, emissionsAmount, renewableEnergyUseAmount, nonrenewableEnergyUseAmount, energyUseUom, factorSource, url, md5, tokenId) ==
  [uuid |-> uuid, utilityId |-> utilityId, partyId |-> partyId,
   fromDate |-> fromDate, thruDate |-> thruDate,
   emissionsAmount |-> emissionsAmount,
   renewableEnergyUseAmount |-> renewableEnergyUseAmount,
   nonrenewableEnergyUseAmount |-> nonrenewableEnergyUseAmount,
   energyUseUom |-> energyUseUom, factorSource |-> factorSource,
   url |-> url, md5 |-> md5, tokenId |-> tokenId]

\* lines 44-60: the record a call builds from its arguments and the calculation
NewEmissionsRecord(utilityId, partyId, fromDate, thruDate, energyUseUom, url, md5, co2Emissions) ==
  EmissionsRecord(
    JsStr(Fingerprint(utilityId, partyId, fromDate, thruDate)),
    utilityId, partyId, fromDate, thruDate,
    co2Emissions.emissions.value,
    co2Emissions.renewable_energy_use_amount,
    co2Emissions.nonrenewable_energy_use_amount,
    energyUseUom, JsStr(FactorSource(co2Emissions)), url, md5, Null)

\* lines 63 and 102: the record written under uuid, and returned
putEmissionsRecord(emissionsRecord, uuid) ==
  [status |-> "ok", record |-> emissionsRecord,
   list |-> Put(emissionsList, ToStr(uuid), emissionsRecord)]

\* fault injection for NoWriteOnFailure: the write of line 63 made whatever
\* the calculation of line 41 ended in
recordCo2Emissions_WriteFirst(utilityId, partyId, fromDate, thruDate, energyUseUom, url, md5, co2Emissions) ==
  [status |-> co2Emissions.status,
   record |-> Null,
   list |-> Put(emissionsList, Fingerprint(utilityId, partyId, fromDate, thruDate),
                NewEmissionsRecord(utilityId, partyId, fromDate, thruDate, energyUseUom,
                                   url, md5, co2Emissions))]

\* lines 41-66: the calculation of line 41 throws before anything is built
\* or written; the write is line 63
recordCo2Emissions(utilityId, partyId, fromDate, thruDate, energyUseUom, url, md5, co2Emissions) ==
  IF co2Emissions.status # "ok"
  THEN [status |-> co2Emissions.status, record |-> Null, list |-> emissionsList]
  ELSE putEmissionsRecord(
         NewEmissionsRecord(utilityId, partyId, fromDate, thruDate, energyUseUom,
                            url, md5, co2Emissions),
         JsStr(Fingerprint(utilityId, partyId, fromDate, thruDate)))

\* recordEmissions, lines 39-67, as a function of its arguments: the outcome
\* and the emissions list it leaves
EngineRecordEmissions(utilityId, partyId, fromDate, thruDate, energyUseAmount, energyUseUom, url, md5) ==
  recordCo2Emissions(utilityId, partyId, fromDate, thruDate, energyUseUom, url, md5,
                     getCo2Emissions(utilityId, thruDate, energyUseAmount, energyUseUom))

\* updateEmissionsRecord, lines 69-106: the record built from the caller's
\* arguments, written at the caller's uuid
EngineUpdateEmissionsRecord(uuid, utilityId, partyId, fromDate, thruDate, emissionsAmount, renewable_energy_use_amount, nonrenewable_energy_use_amount, energyUseUom, factor_source, url, md5, tokenId) ==
  putEmissionsRecord(
    EmissionsRecord(uuid, utilityId, partyId, fromDate, thruDate,
                    parseFloat(emissionsAmount),
                    parseFloat(renewable_energy_use_amount),
                    parseFloat(nonrenewable_energy_use_amount),
                    energyUseUom, factor_source, url, md5, tokenId),
    uuid)

(***************************************************************************)
(* Client: EmissionsContractInvoke                                         *)
(***************************************************************************)
\* JSON.parse(JSON.stringify(v)): NaN and the infinities come back as null
JsonValue(v) == IF v.t = "number" /\ v.k # "fin" THEN Null ELSE v

\* the record as the client parses it out of the transaction result
JsonRecord(r) == [f \in DOMAIN r |-> JsonValue(r[f])]

\* lines 505-512: the object the catch block of recordEmissions returns
SubmitFailure(error, utilityId, partyId, fromDate, thruDate, energyUseAmount, energyUseUom) ==
  [kind |-> "object", info |-> "Failed to submit transaction: ", message |-> error,
   utilityId |-> utilityId, partyId |-> partyId, fromDate |-> fromDate,
   thruDate |-> thruDate, energyUseAmount |-> energyUseAmount,
   energyUseUom |-> energyUseUom]

\* lines 572-574: the object the catch block of getEmissionsData returns
EvaluateFailure(error, uuid) ==
  [kind |-> "object", info |-> "Failed to evaluate transaction: ", message |-> error,
   uuid |-> uuid]

\* lines 646-652: the catch block of getAllEmissionsData builds result and
\* returns all_emissions, the empty array
EvaluateAllFailure(error) == [kind |-> "array", items |-> <<>>]

\* lines 458-461, 537-540, 598-601: the string the connect catch returns
ConnectFailure(err) == [kind |-> "string", text |-> "ERROR: ", message |-> err]

\* lines 489-500.  energyUseUom is assigned twice (lines 496, 499): the
\* later assignment stands.  The record has no emissionsUom field.
RecordedResult(jsonResult) ==
  [kind |-> "object", info |-> "EMISSION RECORDED TO LEDGER",
   utilityId |-> jsonResult.utilityId, partyId |-> jsonResult.partyId,
   fromDate |-> jsonResult.fromDate, thruDate |-> jsonResult.thruDate,
   energyUseAmount |-> jsonResult.emissionsAmount,
   energyUseUom |-> jsonResult.energyUseUom,
   renewableEnergyUseAmount |-> jsonResult.renewableEnergyUseAmount,
   nonrenewableEnergyUseAmount |-> jsonResult.nonrenewableEnergyUseAmount,
   factorSource |-> jsonResult.factorSource]

\* lines 556-567 and 629-639
EmissionsDataResult(record) ==
  [kind |-> "object", info |-> "UTILITY EMISSIONS DATA",
   utilityId |-> record.utilityId, partyId |-> record.partyId,
   fromDate |-> record.fromDate, thruDate |-> record.thruDate,
   emissionsAmount |-> record.emissionsAmount,
   emissionsUom |-> Undefined,
   renewableEnergyUseAmount |-> record.renewableEnergyUseAmount,
   nonrenewableEnergyUseAmount |-> record.nonrenewableEnergyUseAmount,
   energyUseUom |-> record.energyUseUom,
   factorSource |-> record.factorSource]

\* fault injection for RecencyFilter: the comparison of line 625 made
\* against current_year instead of current_year - 1
outsidePastYear_ThisYearOnly(record, current_year) ==
  JsLess(parseInt(slice(record.fromDate.s, 0, 4)), JsNum(current_year))

\* line 625: parseInt(record.fromDate.slice(0, 4)) < current_year - 1
outsidePastYear(record, current_year) ==
  JsLess(parseInt(slice(record.fromDate.s, 0, 4)), JsNum(current_year - 1))

\* lines 617-644: the loop over the parsed result
RECURSIVE all_emissions(_, _)
all_emissions(jsonResult, current_year) ==
  IF jsonResult = <<>> THEN <<>>
  ELSE LET record == Head(jsonResult)
           rest == all_emissions(Tail(jsonResult), current_year)
       IN IF outsidePastYear(record, current_year) THEN rest
          ELSE <<EmissionsDataResult(record)>> \o rest

\* record.fromDate.slice throws a TypeError unless fromDate is a string
sliceThrows(jsonResult) ==
  \E i \in 1..Len(jsonResult) : jsonResult[i].fromDate.t # "string"

(***************************************************************************)
(* Bounds and input sets                                                   *)
(***************************************************************************)
MaxLookups == 2

MaxFactors == 2

MaxRecords == 1

MaxClientRecords == 2

UtilityIds == {<<"a">>, <<"a", "b">>}

PartyIds == {<<"c">>, <<"b", "c">>}

D_2018_06_01 == <<"2", "0", "1", "8", "-", "0", "6", "-", "0", "1">>

D_2019_06_01 == <<"2", "0", "1", "9", "-", "0", "6", "-", "0", "1">>

D_2020_06_01 == <<"2", "0", "2", "0", "-", "0", "6", "-", "0", "1">>

D_2020_12_31 == <<"2", "0", "2", "0", "-", "1", "2", "-", "3", "1">>

FromDates == {D_2020_06_01}

ThruDates == {D_2020_12_31}

Usages == {JsNum(1000)}

UsageUoms == {S_MWh}

FactorItem(dt, di, year, ng, nguom, co2, co2uom, nonren, ren, pct) ==
  [division_type |-> dt, division_id |-> di, year |-> year,
   net_generation |-> ng, net_generation_uom |-> nguom,
   co2_equivalent_emissions |-> co2, co2_equivalent_emissions_uom |-> co2uom,
   non_renewables |-> nonren, renewables |-> ren, percent_of_renewables |-> pct]

\* a state factor with percent_of_renewables
FactorStateCA ==
  FactorItem(JsStr(S_STATE), JsStr(S_CA), JsNum(2020), Undefined, Undefined,
             JsNum(500), JsStr(S_kg_per_MWh), Undefined, Undefined, JsNum(40))

\* a region factor with net generation figures
FactorWECC ==
  FactorItem(JsStr(S_NERC_REGION), JsStr(S_WECC), JsNum(2020), JsNum(2000), JsStr(S_MWh),
             JsNum(100), JsStr(S_tons), JsNum(3), JsNum(1), Undefined)

\* a region factor whose generation figures are all zero
FactorWECCZero ==
  FactorItem(JsStr(S_NERC_REGION), JsStr(S_WECC), JsNum(2020), JsNum(0), JsStr(S_MWh),
             JsNum(100), JsStr(S_tons), JsNum(0), JsNum(0), Undefined)

F1 == <<"f", "1">>

F2 == <<"f", "2">>

\* the (uuid, factor) pairs imported
FactorInputs ==
  {<<F1, FactorStateCA>>, <<F1, FactorWECC>>, <<F2, FactorWECC>>, <<F2, FactorWECCZero>>}

\* a utility with a state
LookupCA == LookupItem(JsStr(S_CA), JsStr(S_country), JsStr(S_USA))

\* a utility with a grid region and an empty state
LookupWECC == LookupItem(JsStr(<<>>), JsStr(S_NERC_REGION), JsStr(S_WECC))

\* a utility whose divisions pair lacks its type
LookupNoType == LookupItem(JsStr(<<>>), Undefined, JsStr(S_WECC))

\* the (uuid, lookup item) pairs imported
LookupInputs ==
  {<<(<<"a">>), LookupCA>>, <<(<<"a">>), LookupNoType>>, <<(<<"a", "b">>), LookupWECC>>}

TokenIds == {JsStr(<<"t">>)}

NoCall == [op |-> "none"]

NoRet == [op |-> "none", status |-> "none"]

EmptyList == [k \in {} |-> Null]

\* the outcome r of a function, as the value returned
Returned(op, r) == [op |-> op, status |-> r.status, value |-> r]

(***************************************************************************)
(* Engine operations                                                       *)
(***************************************************************************)
Init ==
  /\ utilityLookupList = EmptyList
  /\ utilityEmissionsFactorList = EmptyList
  /\ emissionsList = EmptyList
  /\ gateway = "none"
  /\ call = NoCall
  /\ ret = NoRet

\* lines 375-387
importUtilityIdentifier(uuid, item) ==
  /\ utilityLookupList' = Put(utilityLookupList, uuid, item)
  /\ call' = [op |-> "importUtilityIdentifier", uuid |-> uuid]
  /\ ret' = [op |-> "importUtilityIdentifier", status |-> "ok"]
  /\ UNCHANGED <<utilityEmissionsFactorList, emissionsList, gateway>>

\* lines 389-401
updateUtilityIdentifier(uuid, item) ==
  /\ utilityLookupList' = Put(utilityLookupList, uuid, item)
  /\ call' = [op |-> "updateUtilityIdentifier", uuid |-> uuid]
  /\ ret' = [op |-> "updateUtilityIdentifier", status |-> "ok"]
  /\ UNCHANGED <<utilityEmissionsFactorList, emissionsList, gateway>>

\* lines 297-331
importUtilityFactor(uuid, item) ==
  /\ utilityEmissionsFactorList' = Put(utilityEmissionsFactorList, uuid, item)
  /\ call' = [op |-> "importUtilityFactor", uuid |-> uuid]
  /\ ret' = [op |-> "importUtilityFactor", status |-> "ok"]
  /\ UNCHANGED <<utilityLookupList, emissionsList, gateway>>

\* lines 333-367
updateUtilityFactor(uuid, item) ==
  /\ utilityEmissionsFactorList' = Put(utilityEmissionsFactorList, uuid, item)
  /\ call' = [op |-> "updateUtilityFactor", uuid |-> uuid]
  /\ ret' = [op |-> "updateUtilityFactor", status |-> "ok"]
  /\ UNCHANGED <<utilityLookupList, emissionsList, gateway>>

\* the engine returns r to its caller and leaves the emissions list r.list
EngineReturn(op, inputs, r) ==
  /\ emissionsList' = r.list
  /\ call' = inputs
  /\ ret' = [op |-> op, status |-> r.status, value |-> r.record]
  /\ UNCHANGED <<utilityLookupList, utilityEmissionsFactorList, gateway>>

\* lines 39-67
recordEmissions(utilityId, partyId, fromDate, thruDate, energyUseAmount, energyUseUom) ==
  EngineReturn("recordEmissions",
               [op |-> "recordEmissions", utilityId |-> utilityId, partyId |-> partyId,
                fromDate |-> fromDate, thruDate |-> thruDate,
                energyUseAmount |-> energyUseAmount, energyUseUom |-> energyUseUom],
               EngineRecordEmissions(utilityId, partyId, fromDate, thruDate,
                                     energyUseAmount, energyUseUom, Undefined, Undefined))

\* lines 69-106
updateEmissionsRecord(uuid, utilityId, partyId, fromDate, thruDate, emissionsAmount, renewable_energy_use_amount, nonrenewable_energy_use_amount, energyUseUom, tokenId) ==
  EngineReturn("updateEmissionsRecord",
               [op |-> "updateEmissionsRecord", uuid |-> uuid],
               EngineUpdateEmissionsRecord(uuid, utilityId, partyId, fromDate, thruDate,
                                           emissionsAmount, renewable_energy_use_amount,
                                           nonrenewable_energy_use_amount, energyUseUom,
                                           Undefined, Undefined, Undefined, tokenId))

(***************************************************************************)
(* Client operations.  fault is what the environment raises during the     *)
(* call: "setup" in setOrgDataCA / buildWallet, "connect" in               *)
(* gateway.connect, "transport" in getNetwork / submitTransaction /        *)
(* evaluateTransaction, "parse" in JSON.parse of the returned bytes.       *)
(* gateway is the state in which the call leaves the Gateway it built.     *)
(***************************************************************************)
\* the transport hands every argument to the engine as a string
TransportArg(v) == JsStr(ToStr(v))

\* the state of the Gateway object when the call returns
GatewayAfter(fault, engineStatus) ==
  IF fault = "setup" THEN "none"
  ELSE IF fault = "connect" THEN "unconnected"
  ELSE IF fault = "transport" \/ engineStatus # "ok" \/ fault = "parse" THEN "connected"
  ELSE "disconnected"

\* the error the catch block receives, "none" when the try block completes
CaughtError(fault, engineStatus) ==
  IF fault \in {"setup", "transport"} THEN fault
  ELSE IF engineStatus # "ok" THEN engineStatus
  ELSE IF fault = "parse" THEN "SyntaxError"
  ELSE "none"

\* line 39: the parameters of the engine's recordEmissions, bound by position
\* to the arguments of a submitted transaction; a missing argument is undefined
EngineParameters(args) ==
  [utilityId |-> args[1], partyId |-> args[2], fromDate |-> args[3],
   thruDate |-> args[4], energyUseAmount |-> args[5], energyUseUom |-> args[6],
   url |-> args[7], md5 |-> IF Len(args) >= 8 THEN args[8] ELSE Undefined]

\* lines 468-478: the arguments of the transaction recordEmissions submits,
\* in the order of the call, as the transport serialises them
SubmittedArguments(uuid, utilityId, partyId, fromDate, thruDate, energyUseAmount, energyUseUom) ==
  <<TransportArg(uuid), TransportArg(utilityId), TransportArg(partyId),
    TransportArg(fromDate), TransportArg(thruDate), TransportArg(energyUseAmount),
    TransportArg(energyUseUom)>>

\* lines 441-478: the transaction is submitted unless the setup or the
\* connect failed
Submitted(fault, received) == IF fault \in {"setup", "connect"} THEN {} ELSE {received}

\* lines 479-518: what recordEmissions does with the outcome r of the
\* submitted transaction, whose arguments the engine received as received
SubmitReturn(utilityId, partyId, fromDate, thruDate, energyUseAmount, energyUseUom, fault, received, r) ==
  /\ emissionsList' = IF fault \in {"none", "parse"} THEN r.list ELSE emissionsList
  /\ gateway' = GatewayAfter(fault, r.status)
  /\ call' = [op |-> "Invoke.recordEmissions", utilityId |-> utilityId,
              partyId |-> partyId, fromDate |-> fromDate, thruDate |-> thruDate,
              energyUseAmount |-> energyUseAmount, energyUseUom |-> energyUseUom,
              fault |-> fault, submitted |-> Submitted(fault, received)]
  /\ ret' = [op |-> "Invoke.recordEmissions",
             status |-> IF fault = "connect" \/ CaughtError(fault, r.status) # "none"
                        THEN "failed" ELSE "ok",
             value |-> IF fault = "connect" THEN ConnectFailure(fault)
                       ELSE IF CaughtError(fault, r.status) # "none"
                       THEN SubmitFailure(CaughtError(fault, r.status), utilityId, partyId,
                                          fromDate, thruDate, energyUseAmount, energyUseUom)
                       ELSE RecordedResult(JsonRecord(r.record))]
  /\ UNCHANGED <<utilityLookupList, utilityEmissionsFactorList>>

\* lines 440-519.  Lines 469-478 submit uuid, utilityId, partyId, fromDate,
\* thruDate, energyUseAmount, energyUseUom in this order, and the engine
\* (line 39) binds them to its parameters by position.
SubmitTransaction(utilityId, partyId, fromDate, thruDate, energyUseAmount, energyUseUom, fault, received) ==
  SubmitReturn(utilityId, partyId, fromDate, thruDate, energyUseAmount, energyUseUom, fault,
               received,
               EngineRecordEmissions(received.utilityId, received.partyId,
                                     received.fromDate, received.thruDate,
                                     received.energyUseAmount, received.energyUseUom,
                                     received.url, received.md5))

\* lines 440-519
InvokeRecordEmissions(utilityId, partyId, fromDate, thruDate, energyUseAmount, energyUseUom, uuid, fault) ==
  SubmitTransaction(utilityId, partyId, fromDate, thruDate, energyUseAmount, energyUseUom, fault,
                    EngineParameters(SubmittedArguments(uuid, utilityId, partyId, fromDate,
                                                        thruDate, energyUseAmount,
                                                        energyUseUom)))

\* getEmissionsData, lines 116-122: the record stored under uuid
EngineGetEmissionsData(uuid) ==
  IF ToStr(uuid) \in DOMAIN emissionsList
  THEN [status |-> "ok", record |-> emissionsList[ToStr(uuid)]]
  ELSE [status |-> "NotFound", record |-> Null]

\* lines 521-580
InvokeGetEmissionsData(uuid, fault) ==
  LET r == EngineGetEmissionsData(TransportArg(uuid))
      error == CaughtError(fault, r.status)
  IN /\ gateway' = GatewayAfter(fault, r.status)
     /\ call' = [op |-> "Invoke.getEmissionsData", uuid |-> uuid, fault |-> fault]
     /\ ret' = [op |-> "Invoke.getEmissionsData",
                status |-> IF fault = "connect" \/ error # "none" THEN "failed" ELSE "ok",
                value |-> IF fault = "connect" THEN ConnectFailure(fault)
                          ELSE IF error # "none" THEN EvaluateFailure(error, uuid)
                          ELSE EmissionsDataResult(JsonRecord(r.record))]
     /\ UNCHANGED stores

\* the parsed result of the engine's getAllEmissionsData, lines 129-137
JsonResultAll(utilityId, partyId) ==
  LET rows == getAllEmissionRecords(TransportArg(utilityId), TransportArg(partyId))
  IN [i \in 1..Len(rows) |-> JsonRecord(rows[i])]

\* lines 582-655
InvokeGetAllEmissionsData(utilityId, partyId, current_year, fault) ==
  LET jsonResult == JsonResultAll(utilityId, partyId)
      error == CaughtError(fault, "ok")
      thrown == IF error = "none" /\ fault # "connect" /\ sliceThrows(jsonResult)
                THEN "TypeError" ELSE error
  IN /\ gateway' = GatewayAfter(fault, "ok")
     /\ call' = [op |-> "Invoke.getAllEmissionsData", utilityId |-> utilityId,
                 partyId |-> partyId, current_year |-> current_year, fault |-> fault]
     /\ ret' = [op |-> "Invoke.getAllEmissionsData",
                status |-> IF fault = "connect" \/ thrown # "none" THEN "failed" ELSE "ok",
                value |-> IF fault = "connect" THEN ConnectFailure(fault)
                          ELSE IF thrown # "none" THEN EvaluateAllFailure(thrown)
                          ELSE [kind |-> "array",
                                items |-> all_emissions(jsonResult, current_year)]]
     /\ UNCHANGED stores

(***************************************************************************)
(* The engine on its ledger                                                *)
(***************************************************************************)
\* the lists stay within the bounds
WithinBounds(maxRecords) ==
  /\ Cardinality(DOMAIN utilityLookupList') <= MaxLookups
  /\ Cardinality(DOMAIN utilityEmissionsFactorList') <= MaxFactors
  /\ Cardinality(DOMAIN emissionsList') <= maxRecords

Next ==
  \/ \E in \in LookupInputs :
       importUtilityIdentifier(in[1], in[2]) /\ WithinBounds(MaxRecords)
  \/ \E in \in LookupInputs :
       updateUtilityIdentifier(in[1], in[2]) /\ WithinBounds(MaxRecords)
  \/ \E in \in FactorInputs :
       importUtilityFactor(in[1], in[2]) /\ WithinBounds(MaxRecords)
  \/ \E in \in FactorInputs :
       updateUtilityFactor(in[1], in[2]) /\ WithinBounds(MaxRecords)
  \/ \E u \in UtilityIds, p \in PartyIds, f \in FromDates, t \in ThruDates,
        a \in Usages, m \in UsageUoms :
       /\ recordEmissions(JsStr(u), JsStr(p), JsStr(f), JsStr(t), a, JsStr(m))
       /\ WithinBounds(MaxRecords)
  \/ \E k \in DOMAIN emissionsList, u \in UtilityIds, p \in PartyIds, f \in FromDates,
        t \in ThruDates, m \in UsageUoms, tok \in TokenIds :
       /\ updateEmissionsRecord(JsStr(k), JsStr(u), JsStr(p), JsStr(f), JsStr(t),
                                JsStr(<<"5">>), JsStr(<<"2">>), JsStr(<<"3">>), JsStr(m), tok)
       /\ WithinBounds(MaxRecords)

Spec == Init /\ [][Next]_vars

(***************************************************************************)
(* A ledger on which emissions are recorded and never updated              *)
(***************************************************************************)
NextRecord ==
  \/ \E in \in LookupInputs :
       importUtilityIdentifier(in[1], in[2]) /\ WithinBounds(MaxRecords)
  \/ \E in \in FactorInputs :
       importUtilityFactor(in[1], in[2]) /\ WithinBounds(MaxRecords)
  \/ \E u \in UtilityIds, p \in PartyIds, f \in FromDates, t \in ThruDates,
        a \in Usages, m \in UsageUoms :
       /\ recordEmissions(JsStr(u), JsStr(p), JsStr(f), JsStr(t), a, JsStr(m))
       /\ WithinBounds(MaxRecords)

SpecRecord == Init /\ [][NextRecord]_vars

(***************************************************************************)
(* The client against a ledger that holds one utility and its factor       *)
(***************************************************************************)
ClientUtilityIds == {<<"a">>}

ClientPartyIds == {<<"c">>}

ClientFromDates == {D_2018_06_01, D_2019_06_01, D_2020_06_01}

\* the years new Date().getFullYear() returns
CurrentYears == {2020, 2021}

\* the values getNewUuid returns
NewUuids == {<<"u">>}

\* a uuid under which nothing was recorded
UnknownUuid == <<"x">>

\* the faults the environment of a client call can raise
Faults == {"none", "setup", "connect", "transport", "parse"}

NextClient ==
  \/ importUtilityIdentifier(<<"a">>, LookupCA) /\ WithinBounds(MaxClientRecords)
  \/ importUtilityFactor(F1, FactorStateCA) /\ WithinBounds(MaxClientRecords)
  \/ \E u \in ClientUtilityIds, p \in ClientPartyIds, f \in ClientFromDates,
        t \in ThruDates, a \in Usages, m \in UsageUoms :
       /\ recordEmissions(JsStr(u), JsStr(p), JsStr(f), JsStr(t), a, JsStr(m))
       /\ WithinBounds(MaxClientRecords)
  \/ \E u \in ClientUtilityIds, p \in ClientPartyIds, f \in ClientFromDates,
        t \in ThruDates, a \in Usages, m \in UsageUoms, id \in NewUuids,
        fault \in Faults :
       /\ InvokeRecordEmissions(JsStr(u), JsStr(p), JsStr(f), JsStr(t), a, JsStr(m),
                                JsStr(id), fault)
       /\ WithinBounds(MaxClientRecords)
  \/ \E k \in (DOMAIN emissionsList) \cup {UnknownUuid}, fault \in Faults :
       InvokeGetEmissionsData(JsStr(k), fault)
  \/ \E u \in ClientUtilityIds, p \in ClientPartyIds, y \in CurrentYears,
        fault \in Faults :
       InvokeGetAllEmissionsData(JsStr(u), JsStr(p), y, fault)

SpecClient == Init /\ [][NextClient]_vars

(***************************************************************************)
(* Division resolution on its own: every lookup item of ResolveInputs      *)
(***************************************************************************)
StateProvinces == {Undefined, Null, JsStr(<<>>), JsStr(S_CA)}

DivisionTypes ==
  {Undefined, JsStr(S_nerc_region), JsStr(S_NERC_REGION), JsStr(S_country), JsStr(S_COUNTRY)}

DivisionIds ==
  {Undefined, JsStr(<<>>), JsStr(S_WECC), JsStr(S_usa), JsStr(S_USA), JsStr(S_CAN)}

ResolveInputs ==
  {LookupItem(sp, dt, di) : sp \in StateProvinces, dt \in DivisionTypes, di \in DivisionIds}

InitResolve ==
  /\ utilityLookupList = EmptyList
  /\ utilityEmissionsFactorList = EmptyList
  /\ emissionsList = EmptyList
  /\ gateway = "none"
  /\ call \in {[op |-> "resolveDivision", utilityLookup |-> l] : l \in ResolveInputs}
  /\ ret = NoRet

\* lines 164-193 applied to the lookup item
resolveDivision ==
  /\ ret = NoRet
  /\ ret' = Returned("resolveDivision", ResolveDivision(call.utilityLookup))
  /\ UNCHANGED <<stores, gateway, call>>

NextResolve == resolveDivision

SpecResolve == InitResolve /\ [][NextResolve]_vars

(***************************************************************************)
(* The calculation on its own: every factor record of CalcFactors          *)
(***************************************************************************)
CalcFactors ==
  {FactorItem(JsStr(S_STATE), JsStr(S_CA), JsNum(2020), ng, JsStr(S_MWh),
              JsNum(100), co2uom, gen[1], gen[2], pct) :
     ng \in {JsNum(0), JsNum(2000)},
     co2uom \in {JsStr(S_kg_per_MWh), JsStr(S_tons)},
     gen \in {<<JsNum(0), JsNum(0)>>, <<JsNum(3), JsNum(1)>>, <<Undefined, Undefined>>},
     pct \in {Undefined, JsNum(0), JsNum(40), JsNum(100)}}

CalcUsages == {JsNum(0), JsNum(1000)}

InitCalc ==
  /\ utilityLookupList = EmptyList
  /\ utilityEmissionsFactorList = EmptyList
  /\ emissionsList = EmptyList
  /\ gateway = "none"
  /\ call \in {[op |-> "calculate", utilityFactor |-> f, usage |-> a, usage_uom |-> JsStr(m)] :
                 f \in CalcFactors, a \in CalcUsages, m \in UsageUoms}
  /\ ret = NoRet

\* lines 235-294 applied to the factor record
calculate ==
  /\ ret = NoRet
  /\ ret' = Returned("calculate", Calculate(call.utilityFactor, call.usage, call.usage_uom))
  /\ UNCHANGED <<stores, gateway, call>>

NextCalc == calculate

SpecCalc == InitCalc /\ [][NextCalc]_vars

(***************************************************************************)
(* Properties                                                              *)
(***************************************************************************)
IsNonEmptyString(v) == v.t = "string" /\ Len(v.s) > 0

\* C1: a lookup item whose state_province is present and non-empty resolves
\* to {division_id: state_province, division_type: "STATE"}, whatever its
\* divisions pair holds or lacks.
StateTakesPrecedence ==
  (ret.op = "resolveDivision" /\ IsNonEmptyString(call.utilityLookup.state_province))
    => /\ ret.status = "ok"
       /\ ret.value.division = Division(call.utilityLookup.state_province, JsStr(S_STATE))

\* the division the fallback rules name for a lookup item without a state
FallbackDivision(item) ==
  LET dt == item.divisions.division_type
      di == item.divisions.division_id
  IN IF dt.t = "string" /\ toLowerCase(dt.s) = S_nerc_region THEN item.divisions
     ELSE IF /\ dt.t = "string" /\ toLowerCase(dt.s) = S_country
             /\ ~(di.t = "string" /\ toLowerCase(di.s) = S_usa)
          THEN Division(di, JsStr(S_Country))
     ELSE Division(JsStr(S_USA), JsStr(S_COUNTRY))

\* C2: a lookup item whose state_province is absent or empty never resolves
\* to a STATE division; it resolves to the first of: its own pair when the
\* type is nerc_region in any case, {division_id, "Country"} for a country
\* other than usa, {"USA", "COUNTRY"} otherwise.
FallbackOrder ==
  (ret.op = "resolveDivision" /\ ~IsNonEmptyString(call.utilityLookup.state_province))
    => /\ ret.status = "ok"
       /\ ret.value.division.division_type # JsStr(S_STATE)
       /\ ret.value.division = FallbackDivision(call.utilityLookup)

\* C3: the calculation takes the percent_of_renewables branch (unit "g",
\* split by the percentage) whenever the factor record has the field, the
\* value 0 included, and the net-generation branch (unit "tons") exactly
\* when the field is absent.
BranchByPresence ==
  (ret.op = "calculate" /\ ret.status = "ok")
    => LET pct == call.utilityFactor.percent_of_renewables
           usage == ToNumber(call.usage)
       IN IF pct.t # "undefined"
          THEN /\ ret.value.emissions.uom = JsStr(S_g)
               /\ ret.value.renewable_energy_use_amount
                    = JsMul(usage, JsDiv(ToNumber(pct), JsNum(100)))
          ELSE ret.value.emissions.uom = JsStr(S_tons)

\* C4: whenever the calculation returns a result, in either branch, the
\* renewable and the non-renewable amounts add up to the usage amount.
SplitSumsToUsage ==
  (ret.op = "calculate" /\ ret.status = "ok")
    => JsAdd(ret.value.renewable_energy_use_amount,
             ret.value.nonrenewable_energy_use_amount) = ToNumber(call.usage)

\* the factor record a recordEmissions call with these arguments calculates on
FactorUsed(utilityId, thruDate) == getEmissionsFactor(utilityId, thruDate).utilityFactors[1]

HasFactor(utilityId, thruDate) ==
  /\ getEmissionsFactor(utilityId, thruDate).status = "ok"
  /\ getEmissionsFactor(utilityId, thruDate).utilityFactors # <<>>

\* the net-generation branch would divide by zero on this factor record
ZeroDenominator(f) ==
  /\ f.percent_of_renewables.t = "undefined"
  /\ \/ ToNumber(f.net_generation) = JsNum(0)
     \/ JsAdd(ToNumber(f.non_renewables), ToNumber(f.renewables)) = JsNum(0)

FiniteAmounts(r) ==
  /\ IsFinite(r.emissionsAmount)
  /\ IsFinite(r.renewableEnergyUseAmount)
  /\ IsFinite(r.nonrenewableEnergyUseAmount)

\* C5: a recordEmissions call whose factor record has net_generation = 0 or
\* non_renewables + renewables = 0 in the net-generation branch fails, and
\* no stored emissions record carries an amount that is Infinity or NaN.
DivisionByZeroRejected ==
  /\ (/\ ret.op = "recordEmissions"
      /\ HasFactor(call.utilityId, call.thruDate)
      /\ ZeroDenominator(FactorUsed(call.utilityId, call.thruDate)))
       => ret.status # "ok"
  /\ \A k \in DOMAIN emissionsList : FiniteAmounts(emissionsList[k])

\* C6: a recordEmissions call that ends in an error leaves the emissions
\* records, the emissions factors and the utility lookup items as they were.
NoWriteOnFailure ==
  [][(ret'.op = "recordEmissions" /\ ret'.status # "ok") => UNCHANGED stores]_vars

\* a recordEmissions call found no factor for its division while the ledger
\* already held an emissions record
NoWriteOnFailureWitness ==
  /\ ret.op = "recordEmissions"
  /\ ret.status = "NoFactorFound"
  /\ emissionsList # EmptyList

\* C7: every stored emissions record sits under the key, and carries the
\* uuid, that is the fingerprint of its own utilityId, partyId, fromDate and
\* thruDate.
KeyIsFingerprint ==
  \A k \in DOMAIN emissionsList :
    LET r == emissionsList[k]
    IN /\ k = Fingerprint(r.utilityId, r.partyId, r.fromDate, r.thruDate)
       /\ ToStr(r.uuid) = k

ClientOps ==
  {"Invoke.recordEmissions", "Invoke.getEmissionsData", "Invoke.getAllEmissionsData"}

\* the failure object echoes the inputs of the call
EchoesInputs ==
  IF ret.op = "Invoke.recordEmissions"
  THEN /\ ret.value.utilityId = call.utilityId
       /\ ret.value.partyId = call.partyId
       /\ ret.value.fromDate = call.fromDate
       /\ ret.value.thruDate = call.thruDate
       /\ ret.value.energyUseAmount = call.energyUseAmount
       /\ ret.value.energyUseUom = call.energyUseUom
  ELSE IF ret.op = "Invoke.getEmissionsData"
  THEN ret.value.uuid = call.uuid
  ELSE /\ ret.value.utilityId = call.utilityId
       /\ ret.value.partyId = call.partyId

\* C8: a client call that fails (setup, connect, submit/evaluate or parse)
\* returns an object whose info is "Failed to submit/evaluate transaction:
\* <message>" and which echoes the caller's inputs.
StructuredErrorOnFailure ==
  (ret.op \in ClientOps /\ ret.status = "failed")
    => /\ ret.value.kind = "object"
       /\ ret.value.info \in {"Failed to submit transaction: ",
                              "Failed to evaluate transaction: "}
       /\ EchoesInputs

\* the year an ISO date starts with
YearOfDate(d) ==
  1000 * DigitVal(d[1]) + 100 * DigitVal(d[2]) + 10 * DigitVal(d[3]) + DigitVal(d[4])

\* C9: the list the client's getAllEmissionsData returns holds exactly the
\* records of the engine's list whose fromDate year is >= current year - 1,
\* in the engine's order.
RecencyFilter ==
  (ret.op = "Invoke.getAllEmissionsData" /\ ret.status = "ok")
    => LET jsonResult == JsonResultAll(call.utilityId, call.partyId)
           kept == {i \in 1..Len(jsonResult) :
                      YearOfDate(jsonResult[i].fromDate.s) >= call.current_year - 1}
           rank(i) == Cardinality({j \in kept : j <= i})
       IN /\ Len(ret.value.items) = Cardinality(kept)
          /\ \A i \in kept :
               /\ ret.value.items[rank(i)].fromDate = jsonResult[i].fromDate
               /\ ret.value.items[rank(i)].thruDate = jsonResult[i].thruDate
               /\ ret.value.items[rank(i)].utilityId = jsonResult[i].utilityId
               /\ ret.value.items[rank(i)].partyId = jsonResult[i].partyId

\* in 2021 the engine returned a record of 2019 and one of 2020: the first
\* was dropped, the second, dated current year - 1, was kept
RecencyFilterWitness ==
  /\ ret.op = "Invoke.getAllEmissionsData"
  /\ ret.status = "ok"
  /\ call.current_year = 2021
  /\ Len(JsonResultAll(call.utilityId, call.partyId)) = 2
  /\ JsonResultAll(call.utilityId, call.partyId)[1].fromDate = JsStr(D_2019_06_01)
  /\ Len(ret.value.items) = 1
  /\ ret.value.items[1].fromDate = JsStr(D_2020_06_01)

\* C10: no client call returns leaving the gateway it connected still
\* connected.
DisconnectBeforeReturn ==
  ret.op \in ClientOps => gateway # "connected"

\* C11: the engine's recordEmissions receives the utilityId, partyId,
\* fromDate, thruDate, energyUseAmount and energyUseUom the caller passed to
\* the client's recordEmissions, each in its parameter of the same name.
PositionalAgreement ==
  ret.op = "Invoke.recordEmissions"
    => \A received \in call.submitted :
         /\ received.utilityId = TransportArg(call.utilityId)
         /\ received.partyId = TransportArg(call.partyId)
         /\ received.fromDate = TransportArg(call.fromDate)
         /\ received.thruDate = TransportArg(call.thruDate)
         /\ received.energyUseAmount = TransportArg(call.energyUseAmount)
         /\ received.energyUseUom = TransportArg(call.energyUseUom)

\* the fields the fingerprint of an emissions record is derived from
IdentityOf(r) == <<r.utilityId, r.partyId, r.fromDate, r.thruDate>>

\* C12: a successful recordEmissions call writes under the fingerprint of its
\* (utilityId, partyId, fromDate, thruDate), and on a ledger of recorded
\* emissions the record it overwrites has the same four fields: calls with
\* different tuples never share a key.
FingerprintSeparates ==
  [][(ret'.op = "recordEmissions" /\ ret'.status = "ok")
       => /\ ToStr(ret'.value.uuid)
               = Fingerprint(call'.utilityId, call'.partyId, call'.fromDate, call'.thruDate)
          /\ \A k \in DOMAIN emissionsList :
               k = ToStr(ret'.value.uuid)
                 => IdentityOf(emissionsList[k]) = IdentityOf(call')]_vars

====
